---- MODULE Spec2Model ----
(***************************************************************************)
(* Model of docs/docs/how-tos/autogen-integration.ipynb: the notebook that *)
(* wraps an AutoGen chat pair inside a LangGraph node and routes between   *)
(* it and a prebuilt ReAct web-search agent.                               *)
(*                                                                         *)
(* Text is modelled as a tuple of one-character strings, so that rstrip()  *)
(* and endswith() are computed the way Python computes them.               *)
(***************************************************************************)
EXTENDS Integers, Sequences, FiniteSets, TLC

(* ------------------------------ bounds -------------------------------- *)

\* Longest conversation handed to graph.stream as input.
MaxInputLen == 2
\* Most tool rounds the web-search agent's model asks for in one run.
MaxToolRounds == 2
\* Most pieces (the sentinel, a blank, a newline, a letter) of a message on
\* which the termination predicate is tried.
MaxParts == 3

(* ------------------------------- text --------------------------------- *)

\* Python's None, where an identifier or an exception is expected.
None == "None"

Whitespace == {" ", "\n", "\t"}

TERMINATE == <<"T", "E", "R", "M", "I", "N", "A", "T", "E">>

RECURSIVE rstrip(_)
rstrip(s) ==
    IF s = <<>> THEN s
    ELSE IF s[Len(s)] \in Whitespace THEN rstrip(SubSeq(s, 1, Len(s) - 1))
    ELSE s

endswith(s, suffix) ==
    /\ Len(s) >= Len(suffix)
    /\ SubSeq(s, Len(s) - Len(suffix) + 1, Len(s)) = suffix

\* dict.get(key, default)
get(x, key, default) == IF key \in DOMAIN x THEN x[key] ELSE default

(* --------------------------- environment ------------------------------ *)

EnvVars == {"OPENAI_API_KEY", "TAVILY_API_KEY", "HOME", "LANG"}

\* The values a variable that is set may hold before the notebook starts.
EnvValues(var) == IF var = "HOME" THEN {<<"h">>} ELSE {<<>>, <<"k">>}

\* The environments the notebook may start in: each of the two keys is
\* missing, empty or set; HOME is set and LANG is not.
Environs ==
    UNION {{f \in [S -> UNION {EnvValues(v) : v \in S}] :
               \A v \in S : f[v] \in EnvValues(v)}
           : S \in {T \in SUBSET EnvVars : "HOME" \in T /\ "LANG" \notin T}}

\* What the user may type at the getpass prompt (an empty line included).
Entered == {<<>>, <<"p">>}

\* not os.environ.get(var): get gives None for a variable that is not set,
\* and None and the empty string are both false.
not_environ_get(environ, var) == var \notin DOMAIN environ \/ environ[var] = <<>>

\* os.environ[var] = value
environ_set(environ, var, value) ==
    [v \in (DOMAIN environ) \cup {var} |-> IF v = var THEN value ELSE environ[v]]

(* ----------------------------- messages ------------------------------- *)

\* A LangChain message.  id = 0 stands for "no id yet" (id=None); calls says
\* whether an AI message requests a tool call.
Msg(type, content, id, calls) ==
    [type |-> type, content |-> content, id |-> id, calls |-> calls]

HumanMessage(content) == Msg("human", content, 0, FALSE)
AIMessage(content) == Msg("ai", content, 0, FALSE)

\* The messages a caller may put into the conversation: two questions of the
\* user and an earlier answer of an assistant, none of them carrying an id.
InputMessages ==
    {HumanMessage(<<"q", "1">>), HumanMessage(<<"q", "2">>),
     AIMessage(<<"a", "1">>)}

\* The conversations a caller may hand to graph.stream: one to MaxInputLen
\* messages.
Inputs == UNION {[1..n -> InputMessages] : n \in 1..MaxInputLen}

\* The index in `left` of the message with id `i`, or 0.
IndexOfId(left, i) ==
    IF \E k \in 1..Len(left) : left[k].id = i
    THEN CHOOSE k \in 1..Len(left) : left[k].id = i
    ELSE 0

\* The add_messages reducer of MessagesState: every message without an id is
\* given a fresh one (base + its position); a message whose id is already in
\* the list replaces that entry in place; any other message is appended.
\* (The list merged so far is bound as the one element of a set, which has
\* it evaluated once for each message of `right`.)
RECURSIVE add_messages_from(_, _, _, _)
add_messages_from(left, right, k, base) ==
    CHOOSE merged \in
        {IF k > Len(right) THEN l
         ELSE LET m == IF right[k].id = 0
                       THEN [right[k] EXCEPT !.id = base + k]
                       ELSE right[k]
                  at == IndexOfId(l, m.id)
              IN  add_messages_from(
                      IF at = 0 THEN Append(l, m) ELSE [l EXCEPT ![at] = m],
                      right, k + 1, base)
         : l \in {left}} : TRUE

add_messages(left, right, base) == add_messages_from(left, right, 1, base)

\* A reducer that gives ids but appends every update (operator.add on lists),
\* never merging by id.
Reducer_append(left, right, base) ==
    left \o [k \in 1..Len(right) |->
                IF right[k].id = 0 THEN [right[k] EXCEPT !.id = base + k]
                ELSE right[k]]

\* A state whose "messages" key has no reducer: an update overwrites the list.
Reducer_overwrite(left, right, base) == right

\* builder = StateGraph(MessagesState): the graph's state is one channel,
\* "messages", whose updates are merged by add_messages.
Reducer(left, right, base) == add_messages(left, right, base)

(* ------------------------------ routing ------------------------------- *)

\* class Route(TypedDict): goto: Literal["web_search_assistant", "coding_assistant"]
Route == {[goto |-> g] : g \in {"web_search_assistant", "coding_assistant"}}

SystemPrompt == Msg("system", <<"r", "o", "u", "t", "e">>, 0, FALSE)

\* route, first statement: the list sent to the model is a new list, the
\* system prompt followed by the state's messages.
RouteMessages(state) == <<SystemPrompt>> \o state.messages

\* route inserting the system prompt into the state's own list.
RouteStateAfter_insert(state) ==
    [state EXCEPT !.messages = <<SystemPrompt>> \o state.messages]

\* route leaves the state it was given as it is (list + list builds a new list).
RouteStateAfter(state) == state

\* route returning the key it looked up instead of the value stored under it.
route_key(response) == "goto"

\* route, last statement: return response["goto"]
route(response) == response["goto"]

\* route catching the failure of the model call and falling back to a node.
route_on_error_fallback(e) ==
    [raise |-> FALSE, error |-> e, value |-> "coding_assistant"]

\* route has no try/except around the model call: an exception raised there
\* leaves route as it is.
route_on_error(e) == [raise |-> TRUE, error |-> e, value |-> None]

(* --------------------------- the AutoGen pair -------------------------- *)

\* autogen.AssistantAgent(name="assistant", llm_config=llm_config): the other
\* settings are the class's defaults.
autogen_agent ==
    [name |-> "assistant", human_input_mode |-> "NEVER",
     max_consecutive_auto_reply |-> 100]

\* The proxy without max_consecutive_auto_reply=10: the class's default limit.
user_proxy_default_limit ==
    [name |-> "user_proxy", human_input_mode |-> "NEVER",
     max_consecutive_auto_reply |-> 100]

\* autogen.UserProxyAgent(name="user_proxy", human_input_mode="NEVER",
\*                        max_consecutive_auto_reply=10, ...)
user_proxy ==
    [name |-> "user_proxy", human_input_mode |-> "NEVER",
     max_consecutive_auto_reply |-> 10]

\* The predicate without the rstrip().
is_termination_msg_nostrip(x) == endswith(get(x, "content", <<>>), TERMINATE)

\* The predicate looking for the sentinel anywhere in the content.
is_termination_msg_contains(x) ==
    LET c == get(x, "content", <<>>)
    IN  \E k \in 1..Len(c) : endswith(SubSeq(c, 1, k), TERMINATE)

\* is_termination_msg=lambda x: x.get("content", "").rstrip().endswith("TERMINATE")
is_termination_msg(x) == endswith(rstrip(get(x, "content", <<>>)), TERMINATE)

\* The assistant keeps the library's default predicate: the content is
\* exactly "TERMINATE".
assistant_is_termination_msg(x) ==
    "content" \in DOMAIN x /\ x["content"] = TERMINATE

\* What an agent does with the message it has just received, before any reply
\* is generated: "exit" (send nothing, the chat is over), "human" (ask the
\* person at the keyboard) or "auto" (count one more automatic reply and
\* generate it).
check_termination_and_human_reply(agent, counter, terminating) ==
    IF agent.human_input_mode = "ALWAYS" THEN "human"
    ELSE IF counter >= agent.max_consecutive_auto_reply \/ terminating
         THEN (IF agent.human_input_mode = "NEVER" THEN "exit" ELSE "human")
         ELSE "auto"

\* One entry of the chat history, as the human proxy keeps it.
ChatMsg(name, content) ==
    [content |-> content, name |-> name,
     role |-> IF name = "user_proxy" THEN "assistant" ELSE "user"]

\* What the assistant's model may answer: more work, or an answer closed by
\* the sentinel (with and without white space after it).
AssistantReplies ==
    {<<"c", "o", "d", "e">>,
     <<"o", "k", " ">> \o TERMINATE,
     TERMINATE \o <<"\n">>}

\* What the human proxy may answer on its own: the outcome of running the
\* code it was sent, or its model's verdict that the task is solved.
ProxyReplies == {<<"r", "a", "n">>, TERMINATE}

(* ------------------------- call_autogen_agent -------------------------- *)

\* The latest message written by the user, in place of the last message.
RECURSIVE last_message_of_user(_)
last_message_of_user(state) ==
    LET ms == state.messages
    IN  IF Len(ms) = 1 \/ ms[Len(ms)].type = "human" THEN ms[Len(ms)]
        ELSE last_message_of_user([messages |-> SubSeq(ms, 1, Len(ms) - 1)])

\* last_message = state["messages"][-1]
last_message(state) == state.messages[Len(state.messages)]

\* user_proxy.initiate_chat(autogen_agent, message=last_message.content)
initiate_chat_message(state) == last_message(state).content

\* The wrapper returning the first entry of the chat instead of the last.
call_autogen_agent_first(response) ==
    [messages |-> <<AIMessage(response.chat_history[1].content)>>]

\* content = response.chat_history[-1]["content"]
\* return {"messages": AIMessage(content=content)}
call_autogen_agent(response) ==
    [messages |->
        <<AIMessage(response.chat_history[Len(response.chat_history)].content)>>]

\* call_autogen_agent has no try/except either.
call_autogen_agent_on_error(e) == [raise |-> TRUE, error |-> e, value |-> None]

(* ------------------------------ builder ------------------------------- *)

START == "__start__"

\* builder.add_node("coding_assistant", call_autogen_agent)
\* builder.add_node("web_search_assistant", web_search_agent)
Nodes ==
    [coding_assistant |-> "call_autogen_agent",
     web_search_assistant |-> "web_search_agent"]

\* A builder with one more line, add_edge("coding_assistant",
\* "web_search_assistant"): the coding node is no longer terminal.
Edges_chain(n) == IF n = "coding_assistant" THEN {"web_search_assistant"} ELSE {}

\* A builder with one more line, add_edge(START, "web_search_assistant"): the
\* web-search node runs in the first step whatever route returns.
Edges_fanout(n) == IF n = START THEN {"web_search_assistant"} ELSE {}

\* builder.add_conditional_edges(START, route) is the only edge of the graph:
\* no fixed edge leaves START or either agent node.
Edges(n) == {}

\* The failures the external calls may raise.
Errors == {"AuthenticationError", "APIConnectionError"}

(* ------------------------------ notebook ------------------------------ *)

\* The statements of the notebook that act on the state, top to bottom.
Program ==
    << [op |-> "_set_env", var |-> "OPENAI_API_KEY", subgraphs |-> FALSE],
       [op |-> "_set_env", var |-> "TAVILY_API_KEY", subgraphs |-> FALSE],
       [op |-> "stream", var |-> "", subgraphs |-> FALSE],
       [op |-> "stream", var |-> "", subgraphs |-> TRUE] >>

\* A graph compiled with a checkpointer: builder.compile(checkpointer=...).
checkpointer_memory == "MemorySaver"

\* graph = builder.compile(): no checkpointer is given.
checkpointer == None

\* What is kept of the state of a run that is over, for the next run to start
\* from: nothing, unless the graph has a checkpointer.
save(ms) == IF checkpointer = None THEN <<>> ELSE ms

\* The first fresh message id of the run started by statement `c`.
IdBase(c) == 100 * c

\* _set_env testing `var not in os.environ` instead of the value's truth.
_set_env_in(environ, var, entered) ==
    IF var \notin DOMAIN environ
    THEN [environ |-> environ_set(environ, var, entered), prompted |-> TRUE]
    ELSE [environ |-> environ, prompted |-> FALSE]

\* def _set_env(var):
\*     if not os.environ.get(var):
\*         os.environ[var] = getpass.getpass(f"{var}: ")
_set_env(environ, var, entered) ==
    IF not_environ_get(environ, var)
    THEN [environ |-> environ_set(environ, var, entered), prompted |-> TRUE]
    ELSE [environ |-> environ, prompted |-> FALSE]

(* ------------------------------- state -------------------------------- *)

VARIABLES
    environ,        \* os.environ
    environ0,       \* os.environ as it was when the notebook started
    prompts,        \* the getpass prompts so far: the variable, the text typed
    cell,           \* the statement of Program that runs next or is running
    phase,          \* where the run of the current stream statement stands
    active,         \* the units (route, agent nodes) executing right now
    pending,        \* the agent nodes scheduled for this step, not yet started
    input,          \* the messages the run was given
    messages,       \* the "messages" channel of the graph's state
    modelInput,     \* the message list route sent to the model
    routeEvals,     \* how often route was entered in this run
    modelCalls,     \* how many model calls route made in this run
    goto,           \* what route returned (None before)
    executed,       \* the agent nodes started in this run, in order
    completed,      \* the agent nodes that returned in this run, in order
    writes,         \* the updates returned by this step's nodes
    stream,         \* the chunks the run has yielded so far
    failure,        \* the exception the run ended with (None: none)
    failedUnit,     \* the unit that raised it
    raised,         \* the exception an external call raised in this run
    nextId,         \* the next fresh message id
    chat_history,   \* the AutoGen chat of this node call
    chatTurn,       \* who holds the last message: "none", the receiver, "ended"
    counter,        \* consecutive automatic replies, per agent
    chatsStarted,   \* initiate_chat calls of this run
    humanPrompts,   \* times a person was asked for input
    subMessages,    \* the message list inside the web-search agent
    subPhase,       \* its next step: "none", "agent", "tools", "end"
    toolRounds,     \* tool rounds it has run
    started,        \* the stream statements whose run has begun
    checkpoint,     \* the messages the graph's checkpointer holds of the last run
    ended           \* the stream statements whose run is over

envVars == <<environ, environ0, prompts>>
runVars == <<phase, active, pending, input, messages, modelInput, routeEvals,
             modelCalls, goto, executed, completed, writes, stream, failure,
             failedUnit, raised, nextId>>
chatVars == <<chat_history, chatTurn, counter, chatsStarted, humanPrompts>>
subVars == <<subMessages, subPhase, toolRounds>>
bookVars == <<cell, started, ended, checkpoint>>
vars == <<envVars, runVars, chatVars, subVars, bookVars>>

\* The run state before graph.stream is called.
NoRun ==
    /\ phase = "idle" /\ active = {} /\ pending = {}
    /\ input = <<>> /\ messages = <<>> /\ modelInput = <<>>
    /\ routeEvals = 0 /\ modelCalls = 0 /\ goto = None
    /\ executed = <<>> /\ completed = <<>> /\ writes = <<>> /\ stream = <<>>
    /\ failure = None /\ failedUnit = None /\ raised = None /\ nextId = 0
    /\ chat_history = <<>> /\ chatTurn = "none"
    /\ counter = [a \in {"user_proxy", "assistant"} |-> 0]
    /\ chatsStarted = 0 /\ humanPrompts = 0
    /\ subMessages = <<>> /\ subPhase = "none" /\ toolRounds = 0

\* The same, of the state after a step.
ResetRun ==
    /\ phase' = "idle" /\ active' = {} /\ pending' = {}
    /\ input' = <<>> /\ messages' = <<>> /\ modelInput' = <<>>
    /\ routeEvals' = 0 /\ modelCalls' = 0 /\ goto' = None
    /\ executed' = <<>> /\ completed' = <<>> /\ writes' = <<>> /\ stream' = <<>>
    /\ failure' = None /\ failedUnit' = None /\ raised' = None /\ nextId' = 0
    /\ chat_history' = <<>> /\ chatTurn' = "none"
    /\ counter' = [a \in {"user_proxy", "assistant"} |-> 0]
    /\ chatsStarted' = 0 /\ humanPrompts' = 0
    /\ subMessages' = <<>> /\ subPhase' = "none" /\ toolRounds' = 0

Init ==
    /\ environ \in Environs
    /\ environ0 = environ
    /\ prompts = <<>>
    /\ cell = 1
    /\ started = {} /\ ended = {} /\ checkpoint = <<>>
    /\ NoRun

(* --------------------------- notebook steps ---------------------------- *)

\* _set_env("OPENAI_API_KEY"); _set_env("TAVILY_API_KEY")
SetEnv ==
    /\ cell \in 1..Len(Program) /\ Program[cell].op = "_set_env"
    /\ \E entered \in Entered :
          LET r == _set_env(environ, Program[cell].var, entered)
          IN  /\ environ' = r.environ
              /\ prompts' = IF r.prompted
                            THEN Append(prompts, [var |-> Program[cell].var,
                                                  entered |-> entered])
                            ELSE prompts
    /\ cell' = cell + 1
    /\ UNCHANGED <<environ0, runVars, chatVars, subVars, started, ended,
                   checkpoint>>

\* for chunk in graph.stream({"messages": [...]}, ...): the run begins; the
\* input passes through the channel's reducer, which gives each message an id,
\* on top of what the checkpointer holds.
StreamStart ==
    /\ cell \in 1..Len(Program) /\ Program[cell].op = "stream"
    /\ phase = "idle"
    /\ \E in \in Inputs :
          /\ input' = in
          /\ messages' = Reducer(checkpoint, in, IdBase(cell))
          /\ nextId' = IdBase(cell) + Len(in) + 1
    /\ phase' = "branch"
    /\ started' = started \cup {cell}
    /\ UNCHANGED <<envVars, active, pending, modelInput, routeEvals, modelCalls,
                   goto, executed, completed, writes, stream, failure,
                   failedUnit, raised, chatVars, subVars, cell, ended,
                   checkpoint>>

(* ------------------------- the graph's engine ------------------------- *)

State == [messages |-> messages]

\* An exception leaves graph.stream: the run is over, whatever else was
\* scheduled or running is dropped, and nothing is yielded for the step.
Raise(unit, e) ==
    /\ phase' = "failed"
    /\ failure' = e
    /\ failedUnit' = unit
    /\ active' = {}
    /\ pending' = {}
    /\ ended' = ended \cup {cell}

\* The conditional edge out of START has produced the identifier `g`: the
\* nodes of the next step are g and the targets of START's fixed edges.  An
\* identifier that names no node is an error.
Dispatch(g) ==
    LET dests == Edges(START) \cup {g}
    IN  IF dests \subseteq DOMAIN Nodes
        THEN /\ pending' = dests
             /\ phase' = "step"
             /\ active' = {}
             /\ UNCHANGED <<failure, failedUnit, ended>>
        ELSE Raise("branch", "KeyError")

\* A node has returned `update`: the engine keeps it as a write of this step
\* and yields the chunk {node: update}.
NodeReturn(n, update) ==
    /\ active' = active \ {n}
    /\ completed' = Append(completed, n)
    /\ writes' = Append(writes, [node |-> n, messages |-> update])
    /\ stream' = Append(stream, [ns |-> <<>>, node |-> n, messages |-> update])

\* The step's writes folded into the channel, in the order they were made.
RECURSIVE ApplyWrites(_, _, _, _)
ApplyWrites(ms, ws, k, base) ==
    IF k > Len(ws) THEN ms
    ELSE ApplyWrites(Reducer(ms, ws[k].messages, base), ws, k + 1,
                     base + Len(ws[k].messages))

RECURSIVE WritesLen(_, _)
WritesLen(ws, k) ==
    IF k > Len(ws) THEN 0 ELSE Len(ws[k].messages) + WritesLen(ws, k + 1)

(* ------------------------------ one run ------------------------------- *)

\* route is entered: it builds the model's input and calls the model.
RouteInvoke ==
    /\ phase = "branch"
    /\ phase' = "route"
    /\ active' = {"route"}
    /\ modelInput' = RouteMessages(State)
    /\ messages' = RouteStateAfter(State).messages
    /\ routeEvals' = routeEvals + 1
    /\ modelCalls' = modelCalls + 1
    /\ UNCHANGED <<envVars, pending, input, goto, executed, completed, writes,
                   stream, failure, failedUnit, raised, nextId, chatVars, subVars,
                   bookVars>>

\* The model answers with a Route and route returns its "goto".
RouteReturn ==
    /\ phase = "route"
    /\ \E response \in Route :
          /\ goto' = route(response)
          /\ Dispatch(route(response))
    /\ UNCHANGED <<envVars, raised, input, messages, modelInput, routeEvals, modelCalls,
                   executed, completed, writes, stream, nextId, chatVars,
                   subVars, cell, started, checkpoint>>

\* The model call inside route raises.
RouteFail ==
    /\ phase = "route"
    /\ \E e \in Errors :
          LET out == route_on_error(e)
          IN  /\ raised' = e
              /\ IF out.raise
                 THEN Raise("route", out.error) /\ UNCHANGED goto
                 ELSE goto' = out.value /\ Dispatch(out.value)
    /\ UNCHANGED <<envVars, input, messages, modelInput, routeEvals, modelCalls,
                   executed, completed, writes, stream, nextId, chatVars,
                   subVars, cell, started, checkpoint>>

\* The engine starts a scheduled node.  coding_assistant is call_autogen_agent,
\* whose first two statements open the chat; web_search_assistant is the
\* prebuilt agent, which starts from the graph's messages.
NodeStart(n) ==
    /\ phase = "step"
    /\ n \in pending
    /\ pending' = pending \ {n}
    /\ active' = active \cup {n}
    /\ executed' = Append(executed, n)
    /\ IF Nodes[n] = "call_autogen_agent"
       THEN /\ chat_history' =
                  <<ChatMsg(user_proxy.name, initiate_chat_message(State))>>
            /\ chatTurn' = autogen_agent.name
            /\ counter' = [a \in DOMAIN counter |-> 0]
            /\ chatsStarted' = chatsStarted + 1
            /\ UNCHANGED <<humanPrompts, subVars>>
       ELSE /\ subMessages' = messages
            /\ subPhase' = "agent"
            /\ toolRounds' = 0
            /\ UNCHANGED chatVars
    /\ UNCHANGED <<envVars, phase, input, messages, modelInput, routeEvals,
                   modelCalls, goto, completed, writes, stream, failure,
                   failedUnit, raised, nextId, bookVars>>

(* ------------------------- the AutoGen chat --------------------------- *)

\* `agent` holds the last message of the chat and decides what to do with it;
\* `peer` sent it.  A person who is asked either ends the chat or lets a reply
\* go out.
Receive(agent, peer, terminating, Replies) ==
    LET decision ==
            check_termination_and_human_reply(agent, counter[agent.name],
                                              terminating)
        Reply(count) ==
            \E c \in Replies :
               /\ chat_history' = Append(chat_history, ChatMsg(agent.name, c))
               /\ counter' = [counter EXCEPT ![agent.name] = @ + count]
               /\ chatTurn' = peer.name
        Stop ==
            /\ chatTurn' = "ended"
            /\ counter' = [counter EXCEPT ![agent.name] = 0]
            /\ UNCHANGED chat_history
    IN  CASE decision = "exit" -> Stop /\ UNCHANGED humanPrompts
          [] decision = "auto" -> Reply(1) /\ UNCHANGED humanPrompts
          [] decision = "human" ->
                /\ humanPrompts' = humanPrompts + 1
                /\ (Stop \/ Reply(0))

\* The assistant receives the proxy's message.
AssistantTurn ==
    /\ "coding_assistant" \in active
    /\ chatTurn = autogen_agent.name
    /\ Receive(autogen_agent, user_proxy,
               assistant_is_termination_msg(chat_history[Len(chat_history)]),
               AssistantReplies)
    /\ UNCHANGED <<envVars, runVars, chatsStarted, subVars, bookVars>>

\* The human proxy receives the assistant's message.
ProxyTurn ==
    /\ "coding_assistant" \in active
    /\ chatTurn = user_proxy.name
    /\ Receive(user_proxy, autogen_agent,
               is_termination_msg(chat_history[Len(chat_history)]),
               ProxyReplies)
    /\ UNCHANGED <<envVars, runVars, chatsStarted, subVars, bookVars>>

\* initiate_chat has returned: call_autogen_agent's last two statements.
CodingReturn ==
    /\ "coding_assistant" \in active
    /\ chatTurn = "ended"
    /\ NodeReturn("coding_assistant",
                  call_autogen_agent([chat_history |-> chat_history]).messages)
    /\ UNCHANGED <<envVars, phase, pending, input, messages, modelInput,
                   routeEvals, modelCalls, goto, executed, failure, failedUnit, raised,
                   nextId, chatVars, subVars, bookVars>>

(* ----------------------- the web-search agent -------------------------- *)

Answer == <<"a", "n", "s">>
ToolResult == <<"h", "i", "t">>

\* A step inside the agent yielded as if it were a node of the parent graph.
SubChunk_untagged(step, m) ==
    IF Program[cell].subgraphs
    THEN Append(stream, [ns |-> <<>>, node |-> step, messages |-> <<m>>])
    ELSE stream

\* A step inside the agent yields a chunk of its own only when the caller
\* asked for subgraphs=True.
SubChunk(step, m) ==
    IF Program[cell].subgraphs
    THEN Append(stream, [ns |-> <<"web_search_assistant">>, node |-> step,
                         messages |-> <<m>>])
    ELSE stream

\* The agent step: the model answers, asking for a tool call or not.
SubAgentStep ==
    /\ "web_search_assistant" \in active
    /\ subPhase = "agent"
    /\ \E calls \in BOOLEAN :
          /\ calls => toolRounds < MaxToolRounds
          /\ LET m == Msg("ai", IF calls THEN <<>> ELSE Answer, nextId, calls)
             IN  /\ subMessages' = Append(subMessages, m)
                 /\ stream' = SubChunk("agent", m)
          /\ subPhase' = IF calls THEN "tools" ELSE "end"
    /\ nextId' = nextId + 1
    /\ UNCHANGED <<envVars, phase, active, pending, input, messages, modelInput,
                   routeEvals, modelCalls, goto, executed, completed, writes,
                   failure, failedUnit, raised, chatVars, toolRounds, bookVars>>

\* The tools step: the requested call is run and its result appended.
SubToolsStep ==
    /\ "web_search_assistant" \in active
    /\ subPhase = "tools"
    /\ LET m == Msg("tool", ToolResult, nextId, FALSE)
       IN  /\ subMessages' = Append(subMessages, m)
           /\ stream' = SubChunk("tools", m)
    /\ subPhase' = "agent"
    /\ toolRounds' = toolRounds + 1
    /\ nextId' = nextId + 1
    /\ UNCHANGED <<envVars, phase, active, pending, input, messages, modelInput,
                   routeEvals, modelCalls, goto, executed, completed, writes,
                   failure, failedUnit, raised, chatVars, bookVars>>

\* The agent is done: the node's output is its whole message list.
WebReturn ==
    /\ "web_search_assistant" \in active
    /\ subPhase = "end"
    /\ NodeReturn("web_search_assistant", subMessages)
    /\ UNCHANGED <<envVars, phase, pending, input, messages, modelInput,
                   routeEvals, modelCalls, goto, executed, failure, failedUnit, raised,
                   nextId, chatVars, subVars, bookVars>>

(* ----------------------- failure, end of a step ------------------------ *)

\* An executing agent node raises (a model, tool or network error).
NodeFail(n) ==
    /\ n \in active
    /\ n \in DOMAIN Nodes
    /\ \E e \in Errors :
          /\ raised' = e
          /\ IF Nodes[n] = "call_autogen_agent"
             THEN LET out == call_autogen_agent_on_error(e)
                  IN  IF out.raise
                      THEN Raise(n, out.error)
                           /\ UNCHANGED <<completed, writes, stream>>
                      ELSE NodeReturn(n, out.value)
                           /\ UNCHANGED <<phase, pending, failure, failedUnit,
                                          ended>>
             ELSE Raise(n, e) /\ UNCHANGED <<completed, writes, stream>>
    /\ UNCHANGED <<envVars, input, messages, modelInput, routeEvals, modelCalls,
                   goto, executed, nextId, chatVars, subVars, cell, started, checkpoint>>

\* Every node of the step has returned: the writes are merged into the state
\* and the nodes reached by the fixed edges of those that ran are scheduled;
\* when there are none, the run is over.
StepEnd ==
    /\ phase = "step"
    /\ pending = {} /\ active = {}
    /\ writes # <<>>
    /\ messages' = ApplyWrites(messages, writes, 1, nextId)
    /\ nextId' = nextId + WritesLen(writes, 1) + 1
    /\ writes' = <<>>
    /\ LET next == UNION {Edges(writes[k].node) : k \in 1..Len(writes)}
       IN  IF next = {}
           THEN phase' = "done" /\ ended' = ended \cup {cell} /\ UNCHANGED pending
           ELSE pending' = next /\ UNCHANGED <<phase, ended>>
    /\ UNCHANGED <<envVars, active, input, modelInput, routeEvals, modelCalls,
                   goto, executed, completed, stream, failure, failedUnit, raised,
                   chatVars, subVars, cell, started, checkpoint>>

\* The for loop over the stream is over (exhausted, or left by the
\* exception): the next statement of the notebook may run.
NextCell ==
    /\ cell \in 1..Len(Program) /\ Program[cell].op = "stream"
    /\ phase \in {"done", "failed"}
    /\ cell' = cell + 1
    /\ checkpoint' = save(messages)
    /\ ResetRun
    /\ UNCHANGED <<envVars, started, ended>>

Next ==
    \/ SetEnv
    \/ StreamStart
    \/ RouteInvoke
    \/ RouteReturn
    \/ RouteFail
    \/ \E n \in DOMAIN Nodes : NodeStart(n)
    \/ AssistantTurn
    \/ ProxyTurn
    \/ CodingReturn
    \/ SubAgentStep
    \/ SubToolsStep
    \/ WebReturn
    \/ \E n \in DOMAIN Nodes : NodeFail(n)
    \/ StepEnd
    \/ NextCell

Spec == Init /\ [][Next]_vars

(* ======================== the checked properties ====================== *)

AgentNodes == {"web_search_assistant", "coding_assistant"}

\* The stream statement that is running or has just run, if any.
InRun == cell \in 1..Len(Program) /\ phase # "idle"

\* The chunks yielded by the graph itself (not from inside a sub-agent).
TopChunks == SelectSeq(stream, LAMBDA ch : ch.ns = <<>>)

\* s is an initial segment of t.
IsPrefix(s, t) == Len(s) <= Len(t) /\ SubSeq(t, 1, Len(s)) = s

\* A message without its id.
Bare(m) == [m EXCEPT !.id = 0]
BareSeq(ms) == [k \in 1..Len(ms) |-> Bare(ms[k])]

\* C1: whatever route returns is one of the two node identifiers, and the
\* agent nodes scheduled or started after it are that node and no other.
C1_RouteSelectsNode ==
    /\ goto # None => goto \in AgentNodes
    /\ \A k \in 1..Len(executed) : goto # None /\ executed[k] = goto
    /\ pending # {} => goto # None /\ pending = {goto}
    /\ (phase = "step" /\ executed = <<>>) => pending = {goto}

C1_Witness ==
    /\ goto = "web_search_assistant"
    /\ executed = <<"web_search_assistant">>
    /\ "web_search_assistant" \in active

\* route has made one model call per evaluation; what it sent is the system
\* prompt followed by the state's messages, which are still the input's.
RouteEvaluated ==
    /\ modelCalls = routeEvals
    /\ phase = "route" => /\ modelCalls = 1
                          /\ modelInput = <<SystemPrompt>> \o messages
                          /\ BareSeq(messages) = input
                          /\ executed = <<>>

\* A step of a route evaluation changes nothing but the call count.
RouteStepFrame ==
    phase \in {"branch", "route"} =>
        /\ messages' = messages
        /\ modelCalls' = modelCalls + (IF phase = "branch" THEN 1 ELSE 0)
        /\ UNCHANGED <<input, executed, completed, writes, stream, nextId,
                       envVars, chatVars, subVars>>

\* C2: one evaluation of route makes exactly one model call; the list sent to
\* the model is the system prompt followed by the state's messages, while the
\* state's own list is left as it was (no system prompt in it); and while
\* route is being evaluated no node is started, nothing is yielded and nothing
\* else of the program's state changes.
C2_RouteFrame == []RouteEvaluated /\ [][RouteStepFrame]_vars

C2_Witness ==
    /\ phase = "step" /\ goto \in AgentNodes
    /\ modelCalls = 1 /\ Len(messages) = 2 /\ BareSeq(messages) = input

\* At most one evaluation of route and one agent node, route first.
OneRouteOneNode ==
    /\ routeEvals <= 1
    /\ Len(executed) <= 1
    /\ executed # <<>> =>
          routeEvals = 1 /\ goto # None /\ "route" \notin active
    /\ completed # <<>> =>
          completed = executed /\ pending = {} /\ active = {}
    /\ phase = "done" => /\ routeEvals = 1
                         /\ Len(executed) = 1 /\ completed = executed
                         /\ active = {} /\ pending = {}

\* Once the node has returned, the run only ends.
NothingAfterTheNode ==
    (completed # <<>> /\ phase' # "idle") =>
        /\ phase' \in {"step", "done"}
        /\ UNCHANGED <<routeEvals, executed, completed, active, pending>>

\* C3: in every run route is evaluated once and before any agent node; one
\* agent node runs, once; when it has returned the run is over, and a run
\* that is over starts nothing more.
C3_OneRouteOneNode == []OneRouteOneNode /\ [][NothingAfterTheNode]_vars

C3_Witness ==
    /\ phase = "done" /\ executed = <<"coding_assistant">>
    /\ routeEvals = 1

InputIsPrefix == InRun => IsPrefix(input, BareSeq(messages))

OnlyAppends ==
    (phase # "idle" /\ phase' # "idle") => IsPrefix(messages, messages')

\* C4: the input messages stay the first messages of the list, in their
\* order, and every step of a run leaves the list as it was or appends to it.
C4_Accumulating == []InputIsPrefix /\ [][OnlyAppends]_vars

C4_Witness ==
    /\ phase = "done" /\ executed = <<"web_search_assistant">>
    /\ Len(input) = 2 /\ Len(messages) = Len(input) + 3

(* ------------------------------ C5, C6 -------------------------------- *)

Last(h) == h[Len(h)]

CodingRan == executed = <<"coding_assistant">>

\* The content of the latest message of the user in ms ("none" without one).
RECURSIVE LatestUserContent(_)
LatestUserContent(ms) ==
    IF ms = <<>> THEN <<"none">>
    ELSE IF Last(ms).type = "human" THEN Last(ms).content
    ELSE LatestUserContent(SubSeq(ms, 1, Len(ms) - 1))

\* What the wrapper does apart from choosing the opening message: one chat
\* per node call, one AI message out, holding the content of the last entry
\* of the chat, and nothing else of the chat added to the state.
OneChatOneReply ==
    /\ chatsStarted <= 1
    /\ executed # <<>> => (chatsStarted = 1 <=> CodingRan)
    /\ (CodingRan /\ completed # <<>>) =>
          /\ Len(TopChunks) = 1
          /\ TopChunks[1].messages = <<AIMessage(Last(chat_history).content)>>
    /\ (CodingRan /\ phase = "done") =>
          /\ Len(messages) = Len(input) + 1
          /\ BareSeq(messages) =
                Append(input, AIMessage(Last(chat_history).content))

\* C5 as stated: the chat opens with the content of the latest message of the
\* user in the conversation state.
C5_OpensWithLatestUserMessage ==
    /\ OneChatOneReply
    /\ chat_history # <<>> =>
          chat_history[1].content = LatestUserContent(input)

\* C5, amended: call_autogen_agent starts one chat, opened with the content of
\* the last message of the conversation state (whoever wrote it), and returns
\* one AI message with the content of the chat's final entry; no other turn of
\* the chat reaches the graph's message list.
C5_OpensWithLastMessage ==
    /\ OneChatOneReply
    /\ chat_history # <<>> =>
          /\ chat_history[1].name = "user_proxy"
          /\ chat_history[1].content = Last(input).content

C5_Witness ==
    /\ CodingRan /\ phase = "done"
    /\ Len(input) = 2 /\ input[1].content # input[2].content
    /\ Len(chat_history) >= 4
    /\ Last(chat_history).content # chat_history[2].content

\* The content, with trailing white space removed, ends with the sentinel.
Sentinel(content) == endswith(rstrip(content), TERMINATE)

ProxySent == Len(SelectSeq(chat_history, LAMBDA m : m.name = "user_proxy"))

\* The proxy has declined to answer the assistant's last message.
ProxyStopped ==
    chatTurn = "ended" /\ Last(chat_history).name = "assistant"

\* No person is ever asked, and a message of the assistant that ends with the
\* sentinel is never followed by another message.
SentinelEndsChat ==
    /\ humanPrompts = 0
    /\ \A k \in 1..(Len(chat_history) - 1) :
          chat_history[k].name = "assistant"
             => ~Sentinel(chat_history[k].content)

\* C6 as stated: the sentinel ends the chat, and without it the proxy keeps
\* replying.
C6_StopsOnlyOnSentinel ==
    /\ SentinelEndsChat
    /\ ProxyStopped => Sentinel(Last(chat_history).content)

\* C6, amended: the sentinel ends the chat at once; without it the proxy
\* replies on its own, never asking a person, until it has sent 10 automatic
\* replies in a row, and then it stops as well.
C6_StopsOnSentinelOrLimit ==
    /\ SentinelEndsChat
    /\ ProxyStopped =>
          \/ Sentinel(Last(chat_history).content)
          \/ ProxySent = 1 + 10

C6_Witness ==
    /\ ProxyStopped
    /\ Sentinel(Last(chat_history).content)
    /\ Last(chat_history).content # TERMINATE
    /\ Len(chat_history) >= 4

(* ----------------------------- C7 .. C10 ------------------------------ *)

\* The chunks yielded from inside the web-search agent.
SubChunks == SelectSeq(stream, LAMBDA ch : ch.ns # <<>>)

\* The run was asked for the default stream (no subgraphs=True).
DefaultStream == ~Program[cell].subgraphs

\* An exception raised by an external call is the run's failure, unchanged;
\* the failed call was made once, nothing is running or scheduled after it,
\* no node returned and the graph yielded no chunk; after a failure of route
\* no agent node was started at all; the steps inside the web-search agent
\* that were over before the failure are the only ones that yielded.
FailurePropagates ==
    /\ raised # None => phase = "failed" /\ failure = raised
    /\ phase = "failed" =>
          /\ active = {} /\ pending = {}
          /\ routeEvals = 1 /\ modelCalls = 1
          /\ completed = <<>> /\ writes = <<>> /\ TopChunks = <<>>
          /\ failedUnit = "route" =>
                executed = <<>> /\ stream = <<>> /\ goto = None
          /\ failedUnit # "route" =>
                /\ failedUnit \in AgentNodes
                /\ executed = <<failedUnit>>
                /\ chatsStarted <= 1
                /\ BareSeq(messages) = input
          /\ Len(stream) =
                IF ~DefaultStream /\ failedUnit = "web_search_assistant"
                THEN Len(subMessages) - Len(messages)
                ELSE 0

\* A failed run takes no further step of its own.
NothingAfterFailure ==
    (phase = "failed" /\ phase' # "idle") =>
        UNCHANGED <<runVars, chatVars, subVars>>

\* C7: no failure is handled or retried: a failure of route's model call or
\* of the executing agent node ends the run with that same failure; the
\* failed call is not made again, no agent node runs after it (none at all
\* after a failure of route) and no chunk is yielded for the failed step.
C7_FailuresPropagate == []FailurePropagates /\ [][NothingAfterFailure]_vars

C7_Witness ==
    /\ phase = "failed" /\ failedUnit = "route"
    /\ failure = "APIConnectionError"
    /\ routeEvals = 1

\* What the node that ran returned.
NodeOutput(n) ==
    IF n = "coding_assistant"
    THEN <<AIMessage(Last(chat_history).content)>>
    ELSE subMessages

\* C8: a run yields one chunk for the agent node it executed, keyed by that
\* node's identifier and carrying that node's output; in the default stream
\* mode this is the only chunk; no chunk is keyed by the node that was not
\* selected, and the chunk is yielded only after route has returned and the
\* node has finished.
C8_OneChunkPerRun ==
    InRun =>
        /\ DefaultStream => SubChunks = <<>>
        /\ Len(TopChunks) <= 1
        /\ Len(TopChunks) = Len(completed)
        /\ \A k \in 1..Len(TopChunks) :
              /\ TopChunks[k].node = goto
              /\ TopChunks[k].node \in AgentNodes
              /\ executed = <<TopChunks[k].node>>
              /\ completed = executed
              /\ TopChunks[k].node \notin active
              /\ TopChunks[k].messages = NodeOutput(TopChunks[k].node)
              /\ routeEvals = 1 /\ "route" \notin active
        /\ phase = "done" => Len(TopChunks) = 1

C8_Witness ==
    /\ InRun /\ phase = "done" /\ DefaultStream
    /\ Len(stream) = 1
    /\ stream[1].node = "web_search_assistant"
    /\ Len(stream[1].messages) > Len(input) + 1

\* The variable has the same value, or is missing, in both environments.
SameIn(e1, e2, v) ==
    /\ v \in DOMAIN e1 <=> v \in DOMAIN e2
    /\ v \in DOMAIN e1 => e1[v] = e2[v]

PromptsFor(var) == SelectSeq(prompts, LAMBDA q : q.var = var)

SetEnvCalls == {i \in 1..Len(Program) : Program[i].op = "_set_env"}

\* C9: _set_env(var) neither prompts nor changes the environment when var
\* holds a non-empty value; when var is missing or empty it prompts once and
\* stores what was typed under var; no other variable is changed by the call,
\* so after both startup calls only the two keys can differ from before.
C9_SetEnvFrame ==
    /\ \A i \in SetEnvCalls :
          LET var == Program[i].var
          IN  IF cell <= i
              THEN PromptsFor(var) = <<>> /\ SameIn(environ, environ0, var)
              ELSE IF var \in DOMAIN environ0 /\ environ0[var] # <<>>
              THEN PromptsFor(var) = <<>> /\ SameIn(environ, environ0, var)
              ELSE /\ Len(PromptsFor(var)) = 1
                   /\ var \in DOMAIN environ
                   /\ environ[var] = PromptsFor(var)[1].entered
    /\ \A v \in EnvVars \ {"OPENAI_API_KEY", "TAVILY_API_KEY"} :
          SameIn(environ, environ0, v)
    /\ DOMAIN environ \subseteq EnvVars
    /\ Len(prompts) <= 2

C9_Witness ==
    /\ cell = 3
    /\ "OPENAI_API_KEY" \in DOMAIN environ0
    /\ environ0["OPENAI_API_KEY"] = <<"k">>
    /\ "TAVILY_API_KEY" \in DOMAIN environ0
    /\ environ0["TAVILY_API_KEY"] = <<>>
    /\ prompts = <<[var |-> "TAVILY_API_KEY", entered |-> <<"p">>]>>
    /\ environ["TAVILY_API_KEY"] = <<"p">>

StreamCalls == {i \in 1..Len(Program) : Program[i].op = "stream"}

\* C10: at most one of route and the two agent nodes is executing at any
\* moment, at most one run is under way, it is the run of the statement the
\* notebook is at, and a run has begun only if every earlier run is over.
C10_Sequential ==
    /\ Cardinality(active) <= 1
    /\ phase = "route" <=> active = {"route"}
    /\ started \subseteq StreamCalls /\ ended \subseteq started
    /\ Cardinality(started \ ended) <= 1
    /\ started \ ended \subseteq {cell}
    /\ \A c \in started : \A d \in StreamCalls : d < c => d \in ended
    /\ (active # {} \/ pending # {}) => cell \in started \ ended

C10_Witness ==
    /\ started = {3, 4} /\ ended = {3}
    /\ active = {"coding_assistant"}
    /\ chatTurn = "user_proxy"


(* ------------------------------ termination --------------------------- *)

\* Every call the notebook makes is synchronous: the model, the tool, the
\* chat and the engine's own steps return to their caller, so a step of a run
\* that can be taken is taken.  A call that raises instead of returning
\* (RouteFail, NodeFail) is possible and not required, and nothing obliges
\* the person at the notebook to run the next cell.
RunStep ==
    \/ RouteInvoke
    \/ RouteReturn
    \/ \E n \in DOMAIN Nodes : NodeStart(n)
    \/ AssistantTurn
    \/ ProxyTurn
    \/ CodingReturn
    \/ SubAgentStep
    \/ SubToolsStep
    \/ WebReturn
    \/ StepEnd

\* The notebook once both keys are in the environment (they were set before
\* it started, so neither _set_env call prompted) and the first
\* graph.stream statement is next.
FairInit ==
    /\ environ = [v \in {"OPENAI_API_KEY", "TAVILY_API_KEY", "HOME"} |->
                     IF v = "HOME" THEN <<"h">> ELSE <<"k">>]
    /\ environ0 = environ
    /\ prompts = <<>>
    /\ cell = 3
    /\ started = {} /\ ended = {} /\ checkpoint = <<>>
    /\ NoRun

FairNext ==
    \/ StreamStart
    \/ RunStep
    \/ RouteFail
    \/ \E n \in DOMAIN Nodes : NodeFail(n)
    \/ NextCell

FairSpec == FairInit /\ [][FairNext]_vars /\ WF_vars(RunStep)

Running == phase \in {"branch", "route", "step"}

\* The run is over with every node's writes applied, or a call has raised.
Terminal == phase = "done" \/ raised # None

\* The chat stays within the proxy's limit and never waits for a person: the
\* proxy's messages are the opening one and at most
\* max_consecutive_auto_reply replies, and the assistant answers each.  Only
\* a call that raised makes a run fail, and a run through coding_assistant
\* that is over has had its chat end and its node return.
ChatBounded ==
    /\ humanPrompts = 0
    /\ ProxySent <= 1 + 10
    /\ Len(chat_history) <= 2 * (1 + 10)
    /\ counter["user_proxy"] <= 10
    /\ phase = "failed" => raised # None
    /\ (phase = "done" /\ CodingRan) =>
          /\ chatTurn = "ended"
          /\ completed = <<"coding_assistant">>
          /\ Len(stream) = 1

ReceivedParts == {TERMINATE, <<" ">>, <<"\n">>, <<"x">>}

RECURSIVE Concat(_)
Concat(ps) == IF ps = <<>> THEN <<>> ELSE ps[1] \o Concat(Tail(ps))

ReceivedContents ==
    {Concat(ps) : ps \in UNION {[1..n -> ReceivedParts] : n \in 0..MaxParts}}

\* What the assistant may send the proxy: a message with any of these
\* contents, or one that has no "content" key at all.
ReceivedMessages ==
    {ChatMsg(autogen_agent.name, c) : c \in ReceivedContents}
       \cup {[name |-> autogen_agent.name, role |-> "user"]}

\* A run routed to coding_assistant, at the point where the proxy has the
\* assistant's first message in hand: any of ReceivedMessages.
ReceiveInit ==
    /\ environ = [v \in {"OPENAI_API_KEY", "TAVILY_API_KEY", "HOME"} |->
                     IF v = "HOME" THEN <<"h">> ELSE <<"k">>]
    /\ environ0 = environ
    /\ prompts = <<>>
    /\ cell = 3 /\ started = {3} /\ ended = {} /\ checkpoint = <<>>
    /\ phase = "step" /\ active = {"coding_assistant"} /\ pending = {}
    /\ input = <<HumanMessage(<<"q", "1">>)>>
    /\ messages = Reducer(<<>>, input, IdBase(3))
    /\ modelInput = RouteMessages([messages |-> messages])
    /\ routeEvals = 1 /\ modelCalls = 1 /\ goto = "coding_assistant"
    /\ executed = <<"coding_assistant">> /\ completed = <<>>
    /\ writes = <<>> /\ stream = <<>>
    /\ failure = None /\ failedUnit = None /\ raised = None
    /\ nextId = IdBase(3) + 2
    /\ \E x \in ReceivedMessages :
          chat_history = <<ChatMsg(user_proxy.name, <<"q", "1">>), x>>
    /\ chatTurn = user_proxy.name
    /\ counter = [a \in {"user_proxy", "assistant"} |->
                     IF a = "assistant" THEN 1 ELSE 0]
    /\ chatsStarted = 1 /\ humanPrompts = 0
    /\ subMessages = <<>> /\ subPhase = "none" /\ toolRounds = 0

\* The proxy applies is_termination_msg to the message and stops or replies.
ReceiveNext == ProxyTurn

ReceiveSpec == ReceiveInit /\ [][ReceiveNext]_vars

\* The content is the sentinel preceded by anything and followed by white
\* space only.
SentinelThenBlank(c) ==
    \E k \in Len(TERMINATE)..Len(c) :
       /\ \A j \in 1..Len(TERMINATE) : c[k - Len(TERMINATE) + j] = TERMINATE[j]
       /\ \A j \in (k + 1)..Len(c) : c[j] \in Whitespace

\* The message the proxy was handed, and its content ("" without the key).
Received == chat_history[2]
ReceivedContent ==
    IF "content" \in DOMAIN Received THEN Received.content ELSE <<>>

\* C12: is_termination_msg is true of the message the proxy received exactly
\* when the content (empty when the key is missing) is the sentinel followed
\* by nothing but white space, and once the proxy has decided, the chat is over
\* in exactly that case: text after the sentinel, or the sentinel in the
\* middle only, lets the chat go on.
C12_TerminatesOnTrailingSentinel ==
    /\ is_termination_msg(Received) <=> SentinelThenBlank(ReceivedContent)
    /\ chatTurn # user_proxy.name =>
        /\ (chatTurn = "ended") <=> SentinelThenBlank(ReceivedContent)
        /\ chatTurn = "ended" => Len(chat_history) = 2
        /\ chatTurn # "ended" =>
              /\ Len(chat_history) = 3
              /\ chat_history[3].name = user_proxy.name

\* The sentinel followed by a blank and a newline has ended the chat.
C12_Witness ==
    /\ chatTurn = "ended"
    /\ Len(chat_history) = 2
    /\ ReceivedContent = TERMINATE \o <<" ", "\n">>

\* Cases of C12 that let the chat go on: text after the sentinel, and no
\* "content" key.
C12_WitnessTextAfter ==
    /\ chatTurn = autogen_agent.name
    /\ ReceivedContent = TERMINATE \o <<" ", "x">>

C12_WitnessNoContent ==
    /\ chatTurn = autogen_agent.name
    /\ "content" \notin DOMAIN Received


(* ------------------------ the stream with subgraphs -------------------- *)

\* A run of graph.stream(..., subgraphs=True) in which web_search_assistant
\* was started.
SubgraphsWebRun ==
    /\ InRun /\ ~DefaultStream
    /\ executed = <<"web_search_assistant">>

RequestsToolCall(ch) == ch.messages[1].calls

\* The chunk at position k comes from inside the sub-agent: it carries the
\* agent's namespace, is an agent or a tools step and holds one message.
SubAgentChunk(k) ==
    /\ stream[k].ns = <<"web_search_assistant">>
    /\ stream[k].node \in {"agent", "tools"}
    /\ Len(stream[k].messages) = 1

\* The order of the sub-agent's steps: it begins with an agent step, a tools
\* step comes directly after an agent step that asked for a tool call, and
\* nothing comes after an agent step that asked for none.
SubAgentOrder ==
    /\ SubChunks # <<>> => SubChunks[1].node = "agent"
    /\ \A k \in 1..Len(SubChunks) :
          /\ SubChunks[k].node = "tools" =>
                /\ k > 1
                /\ SubChunks[k - 1].node = "agent"
                /\ RequestsToolCall(SubChunks[k - 1])
          /\ (SubChunks[k].node = "agent" /\ k > 1) =>
                SubChunks[k - 1].node = "tools"
          /\ (SubChunks[k].node = "agent" /\ ~RequestsToolCall(SubChunks[k])) =>
                k = Len(SubChunks)

\* C13: with subgraphs=True and the request routed to web_search_assistant,
\* every chunk from inside the sub-agent is yielded before the one chunk of the
\* parent graph keyed web_search_assistant, which is the last chunk of the
\* stream; every tools step directly follows an agent step that asked for a
\* tool call, and the sub-agent's last step is an agent step that asked for
\* none.
C13_SubgraphChunksFirst ==
    SubgraphsWebRun =>
        /\ \A k \in 1..Len(stream) :
              IF stream[k].ns = <<>>
              THEN /\ k = Len(stream)
                   /\ stream[k].node = "web_search_assistant"
                   /\ k > 1
                   /\ stream[k - 1].node = "agent"
                   /\ ~RequestsToolCall(stream[k - 1])
              ELSE SubAgentChunk(k)
        /\ SubAgentOrder
        /\ phase = "done" =>
              /\ Len(TopChunks) = 1
              /\ Len(SubChunks) = Len(stream) - 1
              /\ Last(stream).messages =
                    messages
        /\ Len(SubChunks) = Len(subMessages) - Len(input)

\* A run with one tool round: agent (asking for the tool), tools, agent,
\* and then the parent's chunk.
C13_Witness ==
    /\ SubgraphsWebRun /\ phase = "done"
    /\ Len(stream) = 4
    /\ stream[1].node = "agent" /\ RequestsToolCall(stream[1])
    /\ stream[2].node = "tools"
    /\ stream[3].node = "agent" /\ ~RequestsToolCall(stream[3])
    /\ stream[4].ns = <<>> /\ stream[4].node = "web_search_assistant"


(* ------------------- what reaches the chat from the state -------------- *)

\* The state a run begins with when `in` is its input.
StateOf(in) == [messages |-> Reducer(<<>>, in, 0)]

\* The text the wrapper opens the chat with in the state of input `in`.
OpeningFor(in) == initiate_chat_message(StateOf(in))

\* Two inputs whose last messages have the same content.
SameLast(in1, in2) == Last(in1).content = Last(in2).content

\* The contents of the messages before the last one that are not also the
\* content of the last one.
EarlierContents(in) ==
    {in[j].content : j \in 1..(Len(in) - 1)} \ {Last(in).content}

\* C14: the text with which the chat is opened depends on the last message
\* of the state only: when the chat of a run has just been opened, its text
\* is the one every state with the same last content is opened with; the
\* wrapper starts one chat, and the content of no earlier message is among
\* the entries of the chat.
C14_OnlyLastMessageForwarded ==
    chat_history # <<>> =>
        /\ chatsStarted = 1
        /\ chat_history[1].name = user_proxy.name
        /\ Len(chat_history) = 1 =>
              \A other \in Inputs :
                 SameLast(input, other) =>
                    chat_history[1].content = OpeningFor(other)
        /\ \A k \in 1..Len(chat_history) :
              chat_history[k].content \notin EarlierContents(input)

\* A chat that is over, in a run whose input holds an earlier message with
\* another content than the last one.
C14_Witness ==
    /\ CodingRan /\ chatTurn = "ended"
    /\ Len(input) = 2
    /\ EarlierContents(input) # {}
    /\ input[1].type = "human" /\ input[2].type = "ai"


(* --------------------- the reply taken from the chat ------------------- *)

\* The chat is over and its final entry carries the sentinel: the sentinel
\* ended it (the proxy's limit leaves a final entry without the sentinel
\* unless the assistant said it in that very message).
EndedOnSentinel ==
    /\ chatTurn = "ended"
    /\ Sentinel(Last(chat_history).content)

\* call_autogen_agent has returned; what it returned.
CodingReturned == CodingRan /\ completed = <<"coding_assistant">>
CodingReply == TopChunks[1].messages[1]

\* The reply is the chat's final entry as it is: an AI message with the same
\* content, sentinel included.
ReplyUnmodified ==
    /\ Len(TopChunks[1].messages) = 1
    /\ CodingReply.type = "ai"
    /\ CodingReply.content = Last(chat_history).content
    /\ Sentinel(CodingReply.content)
    /\ phase = "done" => Bare(Last(messages)) = Bare(CodingReply)

\* C15: when the chat has ended on the sentinel, the reply coding_assistant
\* adds is the terminating message itself, unmodified (it still ends with the
\* sentinel), and that message is the assistant's, not the human proxy's.
C15_ReplyIsAssistantsSentinelMessage ==
    (CodingReturned /\ EndedOnSentinel) =>
        /\ ReplyUnmodified
        /\ Last(chat_history).name = autogen_agent.name

\* What does hold: the reply is the terminating message unmodified, and it is
\* the assistant's whenever it was the proxy that stopped.
C15_ReplyIsTerminatingMessage ==
    (CodingReturned /\ EndedOnSentinel) =>
        /\ ReplyUnmodified
        /\ ProxyStopped => Last(chat_history).name = autogen_agent.name
        /\ ~ProxyStopped =>
              /\ Last(chat_history).name = user_proxy.name
              /\ CodingReply.content = TERMINATE

\* The proxy's own model answered TERMINATE, the assistant stopped on it, and
\* the node returned the proxy's message as the reply.
C15_Witness ==
    /\ CodingReturned /\ EndedOnSentinel /\ phase = "done"
    /\ Last(chat_history).name = user_proxy.name
    /\ Last(messages).content = TERMINATE


(* --------------------- merging the sub-agent's output ------------------ *)

WebRan == executed = <<"web_search_assistant">>

\* No two entries of the list are the same message (carry the same id).
NoDuplicates(ms) ==
    \A i, j \in 1..Len(ms) : ms[i].id = ms[j].id => i = j

\* The messages the sub-agent produced: what its list holds after the ones
\* it was started with.
Produced == SubSeq(subMessages, Len(input) + 1, Len(subMessages))

\* C16: after a run through web_search_assistant no message is in the list
\* twice: the node's output holds the input messages again, before the ones
\* the sub-agent produced, and the merged list is the input messages followed
\* by exactly the messages the sub-agent produced.
C16_MergeDoesNotDuplicate ==
    /\ InRun => NoDuplicates(messages)
    /\ (InRun /\ WebRan /\ completed # <<>>) =>
          /\ Len(TopChunks) = 1
          /\ TopChunks[1].messages = subMessages
          /\ BareSeq(SubSeq(subMessages, 1, Len(input))) = input
          /\ Produced # <<>>
          /\ \A k \in 1..Len(Produced) : Produced[k].type \in {"ai", "tool"}
    /\ (InRun /\ WebRan /\ phase = "done") =>
          /\ BareSeq(SubSeq(messages, 1, Len(input))) = input
          /\ messages = SubSeq(subMessages, 1, Len(input)) \o Produced
          /\ Len(messages) = Len(input) + Len(Produced)
          /\ ~DefaultStream =>
                Produced = [k \in 1..Len(SubChunks) |-> SubChunks[k].messages[1]]

\* A run on a conversation that holds the same question twice, with one tool
\* round: the two questions and the three messages produced.
C16_Witness ==
    /\ InRun /\ WebRan /\ phase = "done"
    /\ Len(input) = 2 /\ input[1] = input[2]
    /\ Len(Produced) = 3
    /\ Len(messages) = 5


(* --------------------------- runs are independent ---------------------- *)

\* The ids given to messages in the run of statement c: no other run's.
OwnIds(c) == (IdBase(c) + 1)..(IdBase(c + 1) - 1)

\* Every message the run holds, sends to the routing model, hands around
\* inside the sub-agent, writes or yields.
RunMessages ==
    {messages[k] : k \in 1..Len(messages)}
       \cup {modelInput[k] : k \in 1..Len(modelInput)}
       \cup {subMessages[k] : k \in 1..Len(subMessages)}
       \cup UNION {{writes[k].messages[j] : j \in 1..Len(writes[k].messages)}
                     : k \in 1..Len(writes)}
       \cup UNION {{stream[k].messages[j] : j \in 1..Len(stream[k].messages)}
                     : k \in 1..Len(stream)}

\* The list a run begins with is its input and nothing else, each message
\* with an id of this run.
StartsFromInput ==
    /\ Len(messages) = Len(input)
    /\ BareSeq(messages) = input
    /\ \A k \in 1..Len(messages) : messages[k].id = IdBase(cell) + k

\* C17: nothing is kept from one run to the next: between runs the state is
\* empty and no checkpoint is held; a run begins with its own input only,
\* which is also all the routing model is sent besides the system prompt; and
\* every message in the state, the routing input and the output of a run is
\* one of that run (it has no id yet, or an id given in that run).
C17_RunsAreIndependent ==
    /\ checkpoint = <<>>
    /\ phase = "idle" => RunMessages = {}
    /\ phase \in {"branch", "route"} => StartsFromInput
    /\ phase = "route" => modelInput = <<SystemPrompt>> \o messages
    /\ InRun =>
          /\ IsPrefix(input, BareSeq(messages))
          /\ \A m \in RunMessages : m.id = 0 \/ m.id \in OwnIds(cell)
          /\ chat_history # <<>> => chat_history[1].content = Last(input).content

\* The second run is over, after a first run that ended too.
C17_Witness ==
    /\ cell = 4 /\ ended = {3, 4}
    /\ phase = "done"
    /\ Len(messages) > Len(input)
    /\ Len(input) = 1

====
